---- MODULE Spec2Model ----
(***************************************************************************)
(* Model of package tdma (src/tdma.go): a tridiagonal matrix kept as a     *)
(* flat coefficient slice, the Thomas algorithm Matrix.TDMA and the        *)
(* three-term determinant recurrence detF / Matrix.Determinant.            *)
(*                                                                         *)
(* float64 values are modelled as exact rationals <<p, q>> in lowest terms *)
(* with q > 0, extended by the three IEEE-754 specials a division by zero  *)
(* produces: <<1, 0>> (+Inf), <<-1, 0>> (-Inf) and <<0, 0>> (NaN).         *)
(* Rounding and the sign of zero are not modelled.                         *)
(*                                                                         *)
(* Slices are references into a heap of arrays, so that aliasing between   *)
(* the matrix storage, the caller's right-hand side and a result can be    *)
(* observed.  Go slices are 0-based; At(s, i) reads index i.               *)
(***************************************************************************)
EXTENDS Integers, Sequences, FiniteSets

\* ------------------------------------------------------------- bounds
\* longest coefficient slice with entries from 0 .. MaxVal handed to New
MaxLen == 7
\* slices longer than MaxLen, up to MaxLongLen entries, hold entries from {0, 1}
MaxLongLen == 10
\* the coefficients of a slice of up to MaxLen entries are drawn from 0 .. MaxVal
MaxVal == 2
\* entries of a right-hand side / of a solution vector are drawn from 0 .. MaxRhs
MaxRhs == 1

\* ------------------------------------------------------------- float64
Abs(i) == IF i < 0 THEN -i ELSE i

Sgn(i) == IF i < 0 THEN -1 ELSE IF i = 0 THEN 0 ELSE 1

RECURSIVE GCD(_, _)
GCD(a, b) == IF b = 0 THEN a ELSE GCD(b, a % b)

\* the rational p/q (q # 0) in lowest terms with a positive denominator
Norm(p, q) ==
    LET g == GCD(Abs(p), Abs(q))
    IN  <<(Sgn(q) * p) \div g, Abs(q) \div g>>

F(i) == <<i, 1>>

Zero == <<0, 1>>

NaN == <<0, 0>>

IsNaN(a) == a = NaN

IsInf(a) == a[2] = 0 /\ a[1] # 0

IsFinite(a) == a[2] # 0

\* Go's == on float64: NaN equals nothing
FEq(a, b) == ~IsNaN(a) /\ ~IsNaN(b) /\ a = b

FMul(a, b) ==
    IF IsNaN(a) \/ IsNaN(b) THEN NaN
    ELSE IF IsInf(a) \/ IsInf(b) THEN <<Sgn(a[1]) * Sgn(b[1]), 0>>
    ELSE Norm(a[1] * b[1], a[2] * b[2])

FSub(a, b) ==
    IF IsNaN(a) \/ IsNaN(b) THEN NaN
    ELSE IF IsInf(a) /\ IsInf(b) THEN (IF a = b THEN NaN ELSE a)
    ELSE IF IsInf(a) THEN a
    ELSE IF IsInf(b) THEN <<-b[1], 0>>
    ELSE Norm(a[1] * b[2] - b[1] * a[2], a[2] * b[2])

\* Go's / on float64: a zero divisor yields an infinity or NaN, never a panic
FDiv(a, b) ==
    IF IsNaN(a) \/ IsNaN(b) THEN NaN
    ELSE IF IsInf(a) THEN (IF IsInf(b) THEN NaN
                           ELSE <<a[1] * (IF b[1] < 0 THEN -1 ELSE 1), 0>>)
    ELSE IF IsInf(b) THEN Zero
    ELSE IF b[1] = 0 THEN <<Sgn(a[1]), 0>>
    ELSE Norm(a[1] * b[2], a[2] * b[1])

\* ------------------------------------------------------------- slices
\* s[i] of a Go slice
At(s, i) == s[i + 1]

InRange(s, i) == 0 <= i /\ i < Len(s)

\* s[i] = v
Store(s, i, v) == [s EXCEPT ![i + 1] = v]

\* make([]float64, k)
Make(k) == [i \in 1 .. k |-> Zero]

\* the address make() or a slice literal gets: one no live array has
NewAddr(h) == CHOOSE a \in 1 .. Cardinality(DOMAIN h) + 1 : a \notin DOMAIN h

\* heap h with array v stored at address a
Put(h, a, v) == [b \in DOMAIN h \cup {a} |-> IF b = a THEN v ELSE h[b]]

\* what remains of h once only the addresses in keep are referenced
Keep(h, keep) == [b \in DOMAIN h \cap keep |-> h[b]]

\* ------------------------------------------------------------- errors
NoErr == [type |-> "nil", what |-> "", a |-> 0, b |-> 0, c |-> 0, v |-> Zero]

\* fmt.Errorf("%w: length %d must 3n-2", ErrInvalidTridiagonalMatrix, len(d))
ErrLength(l) ==
    [type |-> "ErrInvalidTridiagonalMatrix", what |-> "length", a |-> l, b |-> 0, c |-> 0, v |-> Zero]

\* fmt.Errorf("%w: r must have exactly %d elements", ErrTDMA, m.n)
ErrRhsLen(n) ==
    [type |-> "ErrTDMA", what |-> "r must have exactly n elements", a |-> n, b |-> 0, c |-> 0, v |-> Zero]

\* fmt.Errorf("%w: m[0] is zero", ErrTDMA)
ErrM0Zero ==
    [type |-> "ErrTDMA", what |-> "m[0] is zero", a |-> 0, b |-> 0, c |-> 0, v |-> Zero]

\* the zero-pivot error naming the row i in place of the coefficient index i3
ErrPivotMut(i3, i, v) ==
    [type |-> "ErrTDMA", what |-> "m[a] == m[b]c[c] == v", a |-> i, b |-> i - 1, c |-> i - 1, v |-> v]

\* fmt.Errorf("%w: m[%d] == m[%d]c[%d] == %f", ErrTDMA, i3, i3-1, i-1, m.m[i3])
ErrPivot(i3, i, v) ==
    [type |-> "ErrTDMA", what |-> "m[a] == m[b]c[c] == v", a |-> i3, b |-> i3 - 1, c |-> i - 1, v |-> v]

\* ------------------------------------------------------------- New
NilMatrix == [n |-> 0, m |-> 0]

\* New rejecting the multiples of 3 only
NewRejectsMut(l) == l % 3 = 0

\* the condition under which New rejects a slice of length l
NewRejects(l) == l % 3 # 1

\* New(d), d a slice at address da of heap h: the *Matrix and the error
New(h, da) ==
    LET l == Len(h[da])
    IN  IF NewRejects(l)
        THEN [M |-> NilMatrix, err |-> ErrLength(l)]
        ELSE [M |-> [n |-> (l - 1) \div 3 + 1, m |-> da], err |-> NoErr]

\* ------------------------------------------------------------- TDMA
\* One execution of TDMA: how it ended ("ok", "err", "panic"), the buffers it
\* made and their contents on return, the divisor of every division it
\* executed (in order) and the indexes of m.m it read.
Run0 ==
    [status |-> "run", err |-> NoErr, made |-> {}, c |-> <<>>, d |-> <<>>, x |-> <<>>,
     divs |-> <<>>, reads |-> {}]

\* return nil, err
Fail(R, e) == [R EXCEPT !.status = "err", !.err = e]

\* runtime panic: index out of range
Panic(R) == [R EXCEPT !.status = "panic"]

\* the adjusted pivot m.m[i3] - m.m[i3-1]*c[i-1]
Pivot(mm, c, i) == FSub(At(mm, i * 3), FMul(At(mm, i * 3 - 1), At(c, i - 1)))

\* a zero-pivot test that looks at the diagonal entry alone
PivotIsZeroMut(mm, c, i) == FEq(At(mm, i * 3), Zero)

\* the zero-pivot test m.m[i3] == m.m[i3-1]*c[i-1]
PivotIsZero(mm, c, i) == FEq(At(mm, i * 3), FMul(At(mm, i * 3 - 1), At(c, i - 1)))

\* for i := 1; i < m.n-1; i++ { ... c[i] = ... }
RECURSIVE SweepC(_, _, _, _)
SweepC(n, mm, R, i) ==
    IF ~(i < n - 1) THEN R
    ELSE IF ~(InRange(mm, i * 3) /\ InRange(mm, i * 3 - 1) /\ InRange(R.c, i - 1))
    THEN Panic(R)
    ELSE LET R1 == [R EXCEPT !.reads = @ \cup {i * 3, i * 3 - 1}]
         IN  IF PivotIsZero(mm, R.c, i)
             THEN Fail(R1, ErrPivot(i * 3, i, At(mm, i * 3)))
             ELSE IF ~(InRange(mm, i * 3 + 1) /\ InRange(R.c, i))
             THEN Panic(R1)
             ELSE SweepC(n, mm,
                         [R1 EXCEPT !.c = Store(@, i, FDiv(At(mm, i * 3 + 1), Pivot(mm, R.c, i))),
                                    !.divs = Append(@, Pivot(mm, R.c, i)),
                                    !.reads = @ \cup {i * 3 + 1}],
                         i + 1)

\* the forward substitution dividing by the diagonal entry, not the adjusted pivot
RECURSIVE SweepDMut(_, _, _, _, _)
SweepDMut(n, mm, r, R, i) ==
    IF ~(i < n) THEN R
    ELSE IF ~(InRange(r, i) /\ InRange(mm, i * 3 - 1) /\ InRange(R.d, i - 1)
              /\ InRange(mm, i * 3) /\ InRange(R.c, i - 1) /\ InRange(R.d, i))
    THEN Panic(R)
    ELSE SweepDMut(n, mm, r,
                   [R EXCEPT !.d = Store(@, i, FDiv(FSub(At(r, i), FMul(At(mm, i * 3 - 1), At(R.d, i - 1))),
                                                    At(mm, i * 3))),
                             !.divs = Append(@, At(mm, i * 3)),
                             !.reads = @ \cup {i * 3 - 1, i * 3}],
                   i + 1)

\* for i := 1; i < m.n; i++ { d[i] = ... }
RECURSIVE SweepD(_, _, _, _, _)
SweepD(n, mm, r, R, i) ==
    IF ~(i < n) THEN R
    ELSE IF ~(InRange(r, i) /\ InRange(mm, i * 3 - 1) /\ InRange(R.d, i - 1)
              /\ InRange(mm, i * 3) /\ InRange(R.c, i - 1) /\ InRange(R.d, i))
    THEN Panic(R)
    ELSE SweepD(n, mm, r,
                [R EXCEPT !.d = Store(@, i, FDiv(FSub(At(r, i), FMul(At(mm, i * 3 - 1), At(R.d, i - 1))),
                                                 Pivot(mm, R.c, i))),
                          !.divs = Append(@, Pivot(mm, R.c, i)),
                          !.reads = @ \cup {i * 3 - 1, i * 3}],
                i + 1)

\* the back substitution reading d[i+1] where it should read x[i+1]
RECURSIVE SweepXMut(_, _)
SweepXMut(R, i) ==
    IF ~(0 <= i) THEN R
    ELSE IF ~(InRange(R.d, i) /\ InRange(R.c, i) /\ InRange(R.d, i + 1) /\ InRange(R.x, i))
    THEN Panic(R)
    ELSE SweepXMut([R EXCEPT !.x = Store(@, i, FSub(At(R.d, i), FMul(At(R.c, i), At(R.d, i + 1))))],
                   i - 1)

\* for i := m.n - 2; 0 <= i; i-- { x[i] = d[i] - c[i]*x[i+1] }
RECURSIVE SweepX(_, _)
SweepX(R, i) ==
    IF ~(0 <= i) THEN R
    ELSE IF ~(InRange(R.d, i) /\ InRange(R.c, i) /\ InRange(R.x, i + 1) /\ InRange(R.x, i))
    THEN Panic(R)
    ELSE SweepX([R EXCEPT !.x = Store(@, i, FSub(At(R.d, i), FMul(At(R.c, i), At(R.x, i + 1))))],
                i - 1)

\* d := make(...) up to return x, nil
Substitute(n, mm, r, R) ==
    LET R1 == [R EXCEPT !.made = @ \cup {"d"}, !.d = Make(n)]
    IN  IF ~(InRange(r, 0) /\ InRange(mm, 0) /\ InRange(R1.d, 0)) THEN Panic(R1)
        ELSE LET R2 == SweepD(n, mm, r,
                              [R1 EXCEPT !.d = Store(@, 0, FDiv(At(r, 0), At(mm, 0))),
                                         !.divs = Append(@, At(mm, 0)),
                                         !.reads = @ \cup {0}],
                              1)
             IN  IF R2.status # "run" THEN R2
                 ELSE LET R3 == [R2 EXCEPT !.made = @ \cup {"x"}, !.x = Make(n)]
                      IN  IF ~(InRange(R3.x, n - 1) /\ InRange(R3.d, n - 1)) THEN Panic(R3)
                          ELSE LET R4 == SweepX([R3 EXCEPT !.x = Store(@, n - 1, At(R3.d, n - 1))],
                                                n - 2)
                               IN  IF R4.status # "run" THEN R4
                                   ELSE [R4 EXCEPT !.status = "ok"]

\* the last row without its zero-pivot test
LastRowMut(n, mm, r, R) == Substitute(n, mm, r, R)

\* the zero-pivot test of the last row, i = m.n-1, behind the loop
LastRow(n, mm, r, R) ==
    LET i == n - 1
    IN  IF ~(InRange(mm, i * 3) /\ InRange(mm, i * 3 - 1) /\ InRange(R.c, i - 1))
        THEN Panic(R)
        ELSE LET R1 == [R EXCEPT !.reads = @ \cup {i * 3, i * 3 - 1}]
             IN  IF PivotIsZero(mm, R.c, i)
                 THEN Fail(R1, ErrPivot(i * 3, i, At(mm, i * 3)))
                 ELSE Substitute(n, mm, r, R1)

\* c := make(...) up to the end of the forward sweep, then the rest
Eliminate(n, mm, r) ==
    LET R1 == [Run0 EXCEPT !.made = {"c"}, !.c = Make(n - 1)]
    IN  IF ~InRange(mm, 0) THEN Panic(R1)
        ELSE LET R2 == [R1 EXCEPT !.reads = {0}]
             IN  IF FEq(At(mm, 0), Zero) THEN Fail(R2, ErrM0Zero)
                 ELSE IF ~(InRange(mm, 1) /\ InRange(R2.c, 0)) THEN Panic(R2)
                 ELSE LET R3 == SweepC(n, mm,
                                       [R2 EXCEPT !.c = Store(@, 0, FDiv(At(mm, 1), At(mm, 0))),
                                                  !.divs = Append(@, At(mm, 0)),
                                                  !.reads = @ \cup {1}],
                                       1)
                      IN  IF R3.status # "run" THEN R3
                          ELSE LastRow(n, mm, r, R3)

\* a guard that rejects a right-hand side only when it is too short
RhsMismatchMut(n, r) == Len(r) < n

\* the guard len(r) != m.n
RhsMismatch(n, r) == Len(r) # n

\* m.TDMA(r) for a matrix of dimension n with coefficients mm
TDMA(n, mm, r) ==
    IF RhsMismatch(n, r) THEN Fail(Run0, ErrRhsLen(n))
    ELSE Eliminate(n, mm, r)

\* ------------------------------------------------------------- Determinant
\* the recurrence without the factor det(n-2)
RECURSIVE detFMut(_, _)
detFMut(elem, n) ==
    IF n = 0 THEN At(elem, 0)
    ELSE IF n = 1 THEN FSub(FMul(At(elem, 3), At(elem, 0)), FMul(At(elem, 2), At(elem, 1)))
    ELSE FSub(FMul(At(elem, n * 3), detFMut(elem, n - 1)),
              FMul(At(elem, n * 3 - 1), At(elem, n * 3 - 2)))

RECURSIVE detF(_, _)
detF(elem, n) ==
    IF n = 0 THEN At(elem, 0)
    ELSE IF n = 1 THEN FSub(FMul(At(elem, 3), At(elem, 0)), FMul(At(elem, 2), At(elem, 1)))
    ELSE FSub(FMul(At(elem, n * 3), detF(elem, n - 1)),
              FMul(FMul(At(elem, n * 3 - 1), At(elem, n * 3 - 2)), detF(elem, n - 2)))

\* whether every index detF(elem, n) reads lies inside elem (no runtime panic)
RECURSIVE detFInRange(_, _)
detFInRange(elem, n) ==
    IF n = 0 THEN InRange(elem, 0)
    ELSE IF n = 1 THEN InRange(elem, 3) /\ InRange(elem, 0) /\ InRange(elem, 2) /\ InRange(elem, 1)
    ELSE /\ InRange(elem, n * 3) /\ InRange(elem, n * 3 - 1) /\ InRange(elem, n * 3 - 2)
         /\ detFInRange(elem, n - 1)
         /\ detFInRange(elem, n - 2)

\* m.Determinant()
Determinant(n, mm) == detF(mm, n - 1)

\* ------------------------------------------------------------- the matrix
\* entry (i, j) of the n x n matrix the coefficient slice e stands for
Dense(n, e, i, j) ==
    IF j = i THEN At(e, 3 * i)
    ELSE IF j = i + 1 THEN At(e, 3 * i + 1)
    ELSE IF j = i - 1 THEN At(e, 3 * i - 1)
    ELSE Zero

FAdd(a, b) == FSub(a, FSub(Zero, b))

RECURSIVE RowSum(_, _, _, _, _)
RowSum(n, e, xv, i, j) ==
    IF j < 0 THEN Zero
    ELSE FAdd(RowSum(n, e, xv, i, j - 1), FMul(Dense(n, e, i, j), At(xv, j)))

\* M * x by dense expansion
MulVec(n, e, xv) == [i \in 1 .. n |-> RowSum(n, e, xv, i - 1, n - 1)]

\* ------------------------------------------------------------- state
VARIABLES
    heap,     \* address -> array: the arrays some slice still refers to
    M,        \* the *Matrix New returned: [n, m], m the address of its slice
    r,        \* address of the right-hand side of the last TDMA call (0: none)
    x,        \* address of the slice the last TDMA call returned (0: nil)
    err,      \* the error the last call returned
    det,      \* the value the last Determinant call returned
    op,       \* the call whose results the caller holds: "init" (none), "New", "TDMA", "Determinant"
    crashed,  \* the last call ended in a runtime panic
    run,      \* the last TDMA execution (see Run0)
    din,      \* the coefficients the caller handed to New
    rin,      \* the right-hand side the caller handed to the last TDMA call
    xin       \* the vector the caller multiplied M by to get rin (<<>>: none)

vars == <<heap, M, r, x, err, det, op, crashed, run, din, rin, xin>>

Vals == {F(v) : v \in 0 .. MaxVal}

LongVals == {F(0), F(1)}

RhsVals == {F(v) : v \in 0 .. MaxRhs}

Vec(S, k) == [1 .. k -> S]

Init ==
    /\ heap = [a \in {} |-> <<>>]
    /\ M = NilMatrix
    /\ r = 0
    /\ x = 0
    /\ err = NoErr
    /\ det = Zero
    /\ op = "init"
    /\ crashed = FALSE
    /\ run = Run0
    /\ din = <<>>
    /\ rin = <<>>
    /\ xin = <<>>

\* the caller builds the slice dv and calls New(dv)
CallNew(dv) ==
    /\ op = "init"
    /\ LET da  == NewAddr(heap)
           h1  == Put(heap, da, dv)
           res == New(h1, da)
       IN  /\ heap' = h1
           /\ M' = res.M
           /\ err' = res.err
    /\ op' = "New"
    /\ din' = dv
    /\ UNCHANGED <<r, x, det, crashed, run, rin, xin>>

\* TDMA building x in the storage of r
AfterRunMut(h1, ra, R) ==
    LET h2 == IF "c" \in R.made THEN Put(h1, NewAddr(h1), R.c) ELSE h1
        h3 == IF "d" \in R.made THEN Put(h2, NewAddr(h2), R.d) ELSE h2
    IN  IF "x" \in R.made THEN [h |-> Put(h3, ra, R.x), x |-> ra] ELSE [h |-> h3, x |-> 0]

\* the heap when execution R of TDMA returns, started on heap h1 with the
\* right-hand side at address ra, and the address of the slice x it made
AfterRun(h1, ra, R) ==
    LET h2 == IF "c" \in R.made THEN Put(h1, NewAddr(h1), R.c) ELSE h1
        h3 == IF "d" \in R.made THEN Put(h2, NewAddr(h2), R.d) ELSE h2
        xa == NewAddr(h3)
    IN  IF "x" \in R.made THEN [h |-> Put(h3, xa, R.x), x |-> xa] ELSE [h |-> h3, x |-> 0]

\* M.TDMA(r) on heap h1, which holds the matrix and the slice r at address ra;
\* xv is the vector r was computed from, if any
DoTDMA(h1, ra, xv) ==
    \E R \in {TDMA(M.n, h1[M.m], h1[ra])} :
        \E A \in {AfterRun(h1, ra, R)} :
            /\ r' = ra
            /\ x' = IF R.status = "ok" THEN A.x ELSE 0
            /\ heap' = Keep(A.h, {M.m, ra, x'})
            /\ err' = R.err
            /\ crashed' = (R.status = "panic")
            /\ run' = R
            /\ op' = "TDMA"
            /\ rin' = h1[ra]
            /\ xin' = xv
            /\ det' = Zero
            /\ UNCHANGED <<M, din>>

\* the caller holds the matrix and nothing an earlier call left
Idle == M # NilMatrix /\ ~crashed /\ op = "New"

\* right-hand sides whose length is not n: zero slices of up to n + 1 entries
WrongRhs(n) == {Make(k) : k \in (0 .. n + 1) \ {n}}

\* the caller builds a slice rv and calls M.TDMA(rv)
CallTDMA ==
    /\ Idle
    /\ \E rv \in Vec(RhsVals, M.n) \cup WrongRhs(M.n) :
           DoTDMA(Put(heap, NewAddr(heap), rv), NewAddr(heap), <<>>)

\* the caller computes r = M * xv by dense expansion and calls M.TDMA(r)
RoundTrip ==
    /\ Idle
    /\ \E xv \in Vec(RhsVals, M.n) :
           DoTDMA(Put(heap, NewAddr(heap), MulVec(M.n, heap[M.m], xv)), NewAddr(heap), xv)

\* the caller drops the result and calls M.TDMA again with the same slice r
Repeat ==
    /\ M # NilMatrix
    /\ ~crashed
    /\ op = "TDMA"
    /\ DoTDMA(Keep(heap, {M.m, r}), r, xin)

\* the caller calls M.Determinant()
CallDeterminant ==
    /\ Idle
    /\ crashed' = ~detFInRange(heap[M.m], M.n - 1)
    /\ det' = IF crashed' THEN Zero ELSE Determinant(M.n, heap[M.m])
    /\ op' = "Determinant"
    /\ UNCHANGED <<heap, M, r, x, err, run, din, rin, xin>>

\* the caller drops what the last call left (the end of an iteration of the
\* test's loop) and holds the matrix alone again
Drop ==
    /\ M # NilMatrix
    /\ ~crashed
    /\ op \in {"TDMA", "Determinant"}
    /\ heap' = Keep(heap, {M.m})
    /\ op' = "New"
    /\ r' = 0
    /\ x' = 0
    /\ err' = NoErr
    /\ det' = Zero
    /\ run' = Run0
    /\ rin' = <<>>
    /\ xin' = <<>>
    /\ UNCHANGED <<M, din, crashed>>

Construct ==
    /\ op = "init"
    /\ \/ \E l \in 0 .. MaxLen : \E dv \in Vec(Vals, l) : CallNew(dv)
       \/ \E l \in MaxLen + 1 .. MaxLongLen : \E dv \in Vec(LongVals, l) : CallNew(dv)

Next ==
    \/ Construct
    \/ CallTDMA
    \/ Repeat
    \/ CallDeterminant
    \/ Drop

\* New, then any sequence of TDMA and Determinant calls
Spec == Init /\ [][Next]_vars

NextRT ==
    \/ Construct
    \/ RoundTrip
    \/ Drop

\* New, then any sequence of round trips x -> M * x -> TDMA(M * x)
SpecRT == Init /\ [][NextRT]_vars

\* ------------------------------------------------------------- reference notions
\* the coefficients of the constructed matrix
Coef == heap[M.m]

Diag(e, i) == At(e, 3 * i)

Sub(e, i) == At(e, 3 * i - 1)

Sup(e, i) == At(e, 3 * i + 1)

\* the last call was TDMA and it returned a solution and a nil error
Solved == op = "TDMA" /\ ~crashed /\ err = NoErr /\ x # 0

\* the last call was TDMA and it returned a nil slice and an error
Failed == op = "TDMA" /\ ~crashed /\ err # NoErr /\ x = 0

\* the modified super-diagonal coefficient c[i] of the forward sweep
RECURSIVE CRef(_, _)
CRef(e, i) ==
    IF i = 0 THEN FDiv(Sup(e, 0), Diag(e, 0))
    ELSE FDiv(Sup(e, i), FSub(Diag(e, i), FMul(Sub(e, i), CRef(e, i - 1))))

\* the adjusted pivot of row i: diag(0) for row 0
PivRef(e, i) ==
    IF i = 0 THEN Diag(e, 0) ELSE FSub(Diag(e, i), FMul(Sub(e, i), CRef(e, i - 1)))

\* row i >= 1 has an exact-zero adjusted pivot: diag(i) == subdiag(i) * c[i-1]
ZeroPivotAt(e, i) == FEq(Diag(e, i), FMul(Sub(e, i), CRef(e, i - 1)))

\* i is the first row, from 1 on, with an exact-zero adjusted pivot
FirstZeroPivot(e, i) == ZeroPivotAt(e, i) /\ \A j \in 1 .. i - 1 : ~ZeroPivotAt(e, j)

\* row i of M * xv, written out over the three diagonals
RowTimes(n, e, xv, i) ==
    FAdd(FAdd(IF i > 0 THEN FMul(Sub(e, i), At(xv, i - 1)) ELSE Zero,
              FMul(Diag(e, i), At(xv, i))),
         IF i < n - 1 THEN FMul(Sup(e, i), At(xv, i + 1)) ELSE Zero)

\* the determinant recurrence, bottom-up, carrying the last two values:
\* last = det(k-1), prev = det(k-2)
RECURSIVE DetIterFrom(_, _, _, _, _)
DetIterFrom(e, k, n, last, prev) ==
    IF k > n - 1 THEN last
    ELSE DetIterFrom(e, k + 1, n,
                     FSub(FMul(Diag(e, k), last), FMul(FMul(Sub(e, k), Sup(e, k - 1)), prev)),
                     last)

DetIter(n, e) == DetIterFrom(e, 1, n, Diag(e, 0), F(1))

\* s without its k-th element
Without(s, k) == SubSeq(s, 1, k - 1) \o SubSeq(s, k + 1, Len(s))

\* the determinant of the dense matrix restricted to the rows and columns
\* listed, by cofactor expansion along the first listed row
RECURSIVE DetMinor(_, _, _, _)
RECURSIVE CofactorSum(_, _, _, _, _)
CofactorSum(n, e, rows, cols, k) ==
    IF k = 0 THEN Zero
    ELSE FAdd(CofactorSum(n, e, rows, cols, k - 1),
              FMul(FMul(F(IF k % 2 = 1 THEN 1 ELSE -1), Dense(n, e, rows[1], cols[k])),
                   DetMinor(n, e, Tail(rows), Without(cols, k))))

DetMinor(n, e, rows, cols) ==
    IF rows = <<>> THEN F(1) ELSE CofactorSum(n, e, rows, cols, Len(cols))

DenseDet(n, e) == DetMinor(n, e, [i \in 1 .. n |-> i - 1], [i \in 1 .. n |-> i - 1])

\* the leading principal minors det(0), ..., det(n-1) are all nonzero
MinorsNonzero(n, e) == \A k \in 0 .. n - 1 : ~FEq(detF(e, k), Zero)

\* k is the first index whose leading principal minor det(k) is zero
FirstZeroMinor(e, k) == FEq(detF(e, k), Zero) /\ \A j \in 0 .. k - 1 : ~FEq(detF(e, j), Zero)

\* ------------------------------------------------------------- claims

\* C1: New(d) succeeds iff (len(d) - 1) mod 3 = 0; the matrix then has
\* n = (len(d)-1)/3 + 1 and holds the 3n-2 coefficients of d in order; otherwise
\* New returns no matrix and ErrInvalidTridiagonalMatrix carrying the length.
C1_NewShape ==
    op = "New" =>
        LET L == Len(din)
        IN  IF (L - 1) % 3 = 0
            THEN /\ err = NoErr
                 /\ M # NilMatrix
                 /\ M.n = (L - 1) \div 3 + 1
                 /\ M.n >= 1
                 /\ L = 3 * M.n - 2
                 /\ heap[M.m] = din
            ELSE /\ M = NilMatrix
                 /\ err.type = "ErrInvalidTridiagonalMatrix"
                 /\ err.a = L

C1_Witness == op = "New" /\ M # NilMatrix /\ M.n = 3 /\ Len(din) = 7

C3_SolutionSolves ==
    Solved =>
        LET n == M.n
            e == Coef
            xv == heap[x]
        IN  /\ Len(xv) = n
            /\ \A i \in 0 .. n - 1 : RowTimes(n, e, xv, i) = At(rin, i)
            /\ Len(run.c) = n - 1
            /\ Len(run.d) = n
            /\ \A i \in 0 .. n - 2 : At(run.c, i) = CRef(e, i)
            /\ At(run.d, 0) = FDiv(At(rin, 0), Diag(e, 0))
            /\ \A i \in 1 .. n - 1 :
                   At(run.d, i) = FDiv(FSub(At(rin, i), FMul(Sub(e, i), At(run.d, i - 1))),
                                       PivRef(e, i))
            /\ At(xv, n - 1) = At(run.d, n - 1)
            /\ \A i \in 0 .. n - 2 :
                   At(xv, i) = FSub(At(run.d, i), FMul(At(run.c, i), At(xv, i + 1)))

C3_Witness ==
    /\ Solved
    /\ M.n = 3
    /\ xin = <<>>
    /\ \E i \in 1 .. 3 : heap[x][i][2] > 1
    /\ \E i \in 1 .. 2 : run.c[i][2] > 1

\* C4: for every constructed matrix, n = 1 included, and every r, TDMA(r)
\* returns either a solution with a nil error or a nil result with ErrTDMA and
\* never panics; for n = 1, diag(0) # 0 and len(r) = 1 it returns
\* [r[0] / diag(0)].
C4_NoPanic ==
    op = "TDMA" =>
        /\ ~crashed
        /\ \/ x # 0 /\ err = NoErr
           \/ x = 0 /\ err.type = "ErrTDMA"
        /\ (M.n = 1 /\ Len(rin) = 1 /\ ~FEq(Diag(Coef, 0), Zero)) =>
               x # 0 /\ heap[x] = <<FDiv(At(rin, 0), Diag(Coef, 0))>>

\* C5: for every constructed matrix and every r with len(r) # n, TDMA(r) fails
\* with ErrTDMA and a nil result whatever the coefficients are, before any
\* coefficient is read and before c, d or x is made or computed.
C5_RhsLength ==
    (op = "TDMA" /\ Len(rin) # M.n) =>
        /\ Failed
        /\ err.type = "ErrTDMA"
        /\ err.what = "r must have exactly n elements"
        /\ err.a = M.n
        /\ run.made = {}
        /\ run.reads = {}
        /\ run.divs = <<>>

C5_Witness ==
    /\ op = "TDMA"
    /\ M.n = 1
    /\ FEq(Diag(Coef, 0), Zero)
    /\ Len(rin) = 2
    /\ Failed

\* C6: with len(r) = n, a zero m[0] makes TDMA fail with ErrTDMA naming m[0];
\* otherwise, if i in 1 .. n-1 is the first row with diag(i) == subdiag(i)*c[i-1],
\* TDMA fails with ErrTDMA naming coefficient index 3i, with a nil result and
\* before d or x is made.
C6_ZeroPivot ==
    (op = "TDMA" /\ Len(rin) = M.n) =>
        IF FEq(Diag(Coef, 0), Zero)
        THEN /\ Failed
             /\ err.type = "ErrTDMA"
             /\ err.what = "m[0] is zero"
             /\ run.made = {"c"}
        ELSE \A i \in 1 .. M.n - 1 :
                 FirstZeroPivot(Coef, i) =>
                     /\ Failed
                     /\ err.type = "ErrTDMA"
                     /\ err.what = "m[a] == m[b]c[c] == v"
                     /\ err.a = 3 * i
                     /\ err.b = 3 * i - 1
                     /\ err.c = i - 1
                     /\ err.v = Diag(Coef, i)
                     /\ run.made = {"c"}

C6_Witness ==
    /\ Failed
    /\ M.n = 3
    /\ Len(rin) = 3
    /\ err.a = 6
    /\ CRef(Coef, 1)[2] > 1

\* C7: for every constructed matrix Determinant() returns, without a panic,
\* det(n-1) of the three-term recurrence, which equals the bottom-up recurrence
\* carrying the last two values and the determinant of the dense matrix.
C7_Determinant ==
    op = "Determinant" =>
        /\ ~crashed
        /\ IsFinite(det)
        /\ det = DetIter(M.n, Coef)
        /\ det = DenseDet(M.n, Coef)
        /\ M.n = 1 => det = Diag(Coef, 0)
        /\ M.n = 2 => det = FSub(FMul(At(Coef, 3), At(Coef, 0)), FMul(At(Coef, 2), At(Coef, 1)))

C7_Witness ==
    /\ op = "Determinant"
    /\ M.n = 3
    /\ det # Zero
    /\ \A i \in 1 .. 7 : Coef[i] # Zero

\* C8: after any sequence of TDMA and Determinant calls the matrix's n and
\* coefficients and the caller's r are what they were, a returned x is a slice
\* of its own, and TDMA called again with the same input gives the same output.
C8_Frame ==
    /\ [](M # NilMatrix =>
            /\ M.n = (Len(din) - 1) \div 3 + 1
            /\ heap[M.m] = din
            /\ r # 0 => heap[r] = rin
            /\ x # 0 => x \in DOMAIN heap /\ x # M.m /\ x # r)
    /\ [][(op = "TDMA" /\ op' = "TDMA" /\ rin' = rin) =>
              /\ crashed' = crashed
              /\ err' = err
              /\ (x = 0) = (x' = 0)
              /\ x # 0 => heap'[x'] = heap[x]]_vars

C8_Witness ==
    /\ Solved
    /\ M.n = 3
    /\ heap[x] # rin
    /\ \A i \in 1 .. 3 : heap[x][i] # Zero

\* C9: every division TDMA executes has a nonzero divisor: m[0] for c[0] and
\* d[0], the adjusted pivot of row i for c[i] and d[i]; no Inf or NaN reaches a
\* returned result.
C9_NoZeroDivisor ==
    op = "TDMA" =>
        /\ \A k \in 1 .. Len(run.divs) : IsFinite(run.divs[k]) /\ run.divs[k] # Zero
        /\ Solved =>
               /\ \A i \in 1 .. M.n : IsFinite(heap[x][i])
               /\ run.divs = [k \in 1 .. 2 * M.n - 1 |->
                                 IF k <= M.n - 1 THEN PivRef(Coef, k - 1)
                                 ELSE PivRef(Coef, k - M.n)]

C9_Witness ==
    /\ Solved
    /\ M.n = 3
    /\ Len(run.divs) = 5
    /\ run.divs[5][2] > 1

\* C10: for n >= 2 and len(r) = n, TDMA succeeds iff every leading principal
\* minor det(0), ..., det(n-1) is nonzero, and a zero-pivot failure reports the
\* first k with det(k) = 0 (as coefficient index 3k).
C10_Minors ==
    (op = "TDMA" /\ M.n >= 2 /\ Len(rin) = M.n) =>
        /\ ~crashed
        /\ Solved <=> MinorsNonzero(M.n, Coef)
        /\ Solved => ~FEq(Determinant(M.n, Coef), Zero)
        /\ Failed => /\ err.a % 3 = 0
                     /\ err.a \div 3 \in 0 .. M.n - 1
                     /\ FirstZeroMinor(Coef, err.a \div 3)

\* a nonsingular matrix TDMA rejects
C10_Witness ==
    /\ Failed
    /\ M.n = 3
    /\ Len(rin) = 3
    /\ err.a = 3
    /\ ~FEq(Determinant(M.n, Coef), Zero)

====
